---- MODULE Spec2Model ----
(***************************************************************************)
(* Day-care booking app (booking_app.py): the Streamlit script as a state  *)
(* machine.  One script run is one event.  The session state, the widget   *)
(* values and what the run rendered are the state; the runs in which the   *)
(* "Check Availability" button reads pressed execute the confirm_button    *)
(* handler, and inside it, the nested btn_pay handler.                     *)
(***************************************************************************)
EXTENDS Integers, Sequences, FiniteSets, TLC

\* ---------------------------------------------------------------- bounds
\* Days offered by the date pickers: 1..NumDays, consecutive calendar days
\* of one month.
NumDays == 3
\* pandas weekday (Monday=0 .. Sunday=6) of day 1.
FirstWeekday == 3
\* Commits per behaviour (caps the growth of the ledger counters).
MaxCommits == 1
\* Days of the calendar window get_weekdays_in_range is called on alone.
ExpandDays == 10

\* ---------------------------------------------------------- configuration
Elder == "Elder Day Care"
Child == "Child Day Care"
SERVICE_NAMES == <<Elder, Child>>
Services == {Elder, Child}
PRICES == [s \in Services |-> IF s = Elder THEN 800 ELSE 600]
MAX_CAPACITY == 25

Days == 1..NumDays
\* The absent date (Python None); no day is 0.
None == 0

\* ------------------------------------------------------------- dates
\* datetime.weekday() / DatetimeIndex.weekday of a day.
weekday(d) == (FirstWeekday + d - 1) % 7

\* strftime("%a") of a day.
DayAbbr(d) == <<"Mon", "Tue", "Wed", "Thu", "Fri", "Sat", "Sun">>[weekday(d) + 1]

\* strftime("%Y-%m-%d"): year and month are the same for every day of the
\* window, the zero-padded day-of-month digits are what tells keys apart.
DateStr(d) == <<d \div 10, d % 10>>

\* strftime("%Y-%m-%d (%a)").
DateLabel(d) == <<DateStr(d), DayAbbr(d)>>

\* pd.date_range(start, end, freq='D') as a list.
date_range(start_date, end_date) ==
    [i \in 1..(end_date - start_date + 1) |-> start_date + i - 1]

\* Mutant: Saturday is kept.
IsWeekdayOrSaturday(d) == weekday(d) <= 5

IsWeekday(d) == weekday(d) < 5

get_weekdays_in_range(start_date, end_date) ==
    IF start_date # None /\ end_date # None /\ start_date <= end_date
    THEN SelectSeq(date_range(start_date, end_date), IsWeekday)
    ELSE <<>>

\* ------------------------------------------------------------- ledger
\* daily_bookings is a defaultdict of defaultdict(int): a function from the
\* stored date strings to functions from the stored service names to counts.
EmptyLedger == << >>

HasKey(db, k, s) == k \in DOMAIN db /\ s \in DOMAIN db[k]

\* The value db[k][s] evaluates to (0 when the key is not stored).
Count(db, k, s) == IF HasKey(db, k, s) THEN db[k][s] ELSE 0

\* db with db[k][s] set to v, creating the date entry and the service entry
\* when they are not stored.
Store(db, k, s, v) ==
    LET inner == IF k \in DOMAIN db THEN db[k] ELSE << >>
        inner2 == [y \in DOMAIN inner \cup {s} |-> IF y = s THEN v ELSE inner[y]]
    IN  [x \in DOMAIN db \cup {k} |-> IF x = k THEN inner2 ELSE db[x]]

\* Mutant: looking a day up books a place on it.
ReadThroughBooking(db, k, s) ==
    [x \in DOMAIN db \cup {k} |->
        IF x = k
        THEN [y \in (IF k \in DOMAIN db THEN DOMAIN db[k] ELSE {}) \cup {s} |->
                 IF y = s
                 THEN (IF k \in DOMAIN db /\ s \in DOMAIN db[k] THEN db[k][s] ELSE 0) + 1
                 ELSE db[k][y]]
        ELSE db[x]]

\* State of the ledger after evaluating db[k][s]: a defaultdict stores the
\* default under a key that is read and not yet stored.
ReadThrough(db, k, s) == Store(db, k, s, Count(db, k, s))

\* current_bookings[date_str][service_name] += 1
Increment(db, k, s) == Store(db, k, s, Count(db, k, s) + 1)

\* Mutant: the comparison lets the count reach the capacity plus one.
AtCapacityStrict(n) == n > MAX_CAPACITY

\* Mutant: the last place of a day is refused.
AtCapacityEarly(n) == n >= MAX_CAPACITY - 1

AtCapacity(n) == n >= MAX_CAPACITY

\* Mutant: the loop stops at the first full date.
RECURSIVE OverbookedFirst(_, _, _)
OverbookedFirst(db, s, dates) ==
    IF dates = <<>> THEN <<>>
    ELSE IF Count(db, DateStr(Head(dates)), s) >= MAX_CAPACITY
         THEN <<DateLabel(Head(dates))>>
         ELSE OverbookedFirst(db, s, Tail(dates))

\* The capacity loop of one service: every weekday is looked up; the labels
\* of the full ones are collected in order.
RECURSIVE OverbookedDates(_, _, _)
OverbookedDates(db, s, dates) ==
    IF dates = <<>> THEN <<>>
    ELSE LET dt == Head(dates)
             rest == OverbookedDates(db, s, Tail(dates))
         IN  IF AtCapacity(Count(db, DateStr(dt), s))
             THEN <<DateLabel(dt)>> \o rest
             ELSE rest

\* Mutant: the check takes a place on every date it looks up.
ReadAllReserving(db, s, dates) ==
    IF dates = <<>> THEN db
    ELSE [k \in DOMAIN db \cup {DateStr(d) : d \in {dates[i] : i \in 1..Len(dates)}} |->
            LET inner == IF k \in DOMAIN db THEN db[k] ELSE << >>
                hit == k \in {DateStr(dates[i]) : i \in 1..Len(dates)}
            IN  [y \in DOMAIN inner \cup (IF hit THEN {s} ELSE {}) |->
                    IF hit /\ y = s
                    THEN (IF y \in DOMAIN inner THEN inner[y] ELSE 0) + 1
                    ELSE inner[y]]]

\* The ledger after the capacity loop of one service has read its keys.
RECURSIVE ReadAll(_, _, _)
ReadAll(db, s, dates) ==
    IF dates = <<>> THEN db
    ELSE ReadAll(ReadThrough(db, DateStr(Head(dates)), s), s, Tail(dates))

\* Mutant: the loop over the dates stops after the first date.
IncrementFirstOnly(db, s, dates) ==
    IF dates = <<>> THEN db ELSE Increment(db, DateStr(Head(dates)), s)

\* The inner loop of the payment handler: one increment per date.
RECURSIVE IncrementAll(_, _, _)
IncrementAll(db, s, dates) ==
    IF dates = <<>> THEN db
    ELSE IncrementAll(Increment(db, DateStr(Head(dates)), s), s, Tail(dates))

\* ------------------------------------------------------- check handler
\* One entry of processing_errors: the message, and for a capacity error
\* the date labels joined into it.
Err(msg, dates) == [msg |-> msg, dates |-> dates]

MsgNoService == "Please select at least one service type."
MsgElderMissing == "Please select a valid start AND end date for Elder Day Care."
MsgElderInverted == "Elder Care: Start date cannot be after end date."
MsgChildMissing == "Please select a valid start AND end date for Child Day Care."
MsgChildInverted == "Child Care: Start date cannot be after end date."
MsgElderNoWeekdays == "Elder Care: Selected range contains no weekdays (Mon-Fri)."
MsgChildNoWeekdays == "Child Care: Selected range contains no weekdays (Mon-Fri)."
MsgElderCapacity == "Elder Care: Capacity limit (25) reached on: "
MsgChildCapacity == "Child Care: Capacity limit (25) reached on: "
MsgZeroDays == "Selected range(s) resulted in zero valid booking days (Mon-Fri)."

\* not r or len(r) != 2 or not r[0] or not r[1]
RangeIncomplete(r) == Len(r) # 2 \/ r[1] = None \/ r[2] = None

\* Mutant: validation stops at the first service with an error.
ValidationFirstOnly(sel_elder, elder_range, sel_child, child_range) ==
    IF ~sel_elder /\ ~sel_child THEN <<Err(MsgNoService, <<>>)>>
    ELSE IF sel_elder /\ RangeIncomplete(elder_range)
    THEN <<Err(MsgElderMissing, <<>>)>>
    ELSE IF sel_elder /\ elder_range[1] > elder_range[2]
    THEN <<Err(MsgElderInverted, <<>>)>>
    ELSE IF sel_child /\ RangeIncomplete(child_range)
    THEN <<Err(MsgChildMissing, <<>>)>>
    ELSE IF sel_child /\ child_range[1] > child_range[2]
    THEN <<Err(MsgChildInverted, <<>>)>>
    ELSE <<>>

\* 2. Input Validation: the errors appended, in order.
ValidationErrors(sel_elder, elder_range, sel_child, child_range) ==
    (IF ~sel_elder /\ ~sel_child THEN <<Err(MsgNoService, <<>>)>> ELSE <<>>)
    \o (IF sel_elder /\ RangeIncomplete(elder_range)
        THEN <<Err(MsgElderMissing, <<>>)>>
        ELSE IF sel_elder /\ elder_range[1] > elder_range[2]
             THEN <<Err(MsgElderInverted, <<>>)>>
             ELSE <<>>)
    \o (IF sel_child /\ RangeIncomplete(child_range)
        THEN <<Err(MsgChildMissing, <<>>)>>
        ELSE IF sel_child /\ child_range[1] > child_range[2]
             THEN <<Err(MsgChildInverted, <<>>)>>
             ELSE <<>>)

\* Mutant: every service is charged the Elder Day Care price.
DetailElderPrice(s, dates) ==
    [dates |-> dates, num_days |-> Len(dates), cost |-> Len(dates) * PRICES[Elder]]

\* temp_elder_details / temp_child_details of a service with these weekdays.
Detail(s, dates) ==
    [dates |-> dates, num_days |-> Len(dates), cost |-> Len(dates) * PRICES[s]]

\* Mutant: the test for an empty weekday list is left out.
ProcessElderNoEmptyTest(db, sel_elder, elder_range) ==
    IF ~sel_elder
    THEN [avail |-> TRUE, errors |-> <<>>, details |-> << >>, db |-> db]
    ELSE LET elder_weekdays == get_weekdays_in_range(elder_range[1], elder_range[2])
             overbooked == OverbookedDates(db, Elder, elder_weekdays)
             avail == overbooked = <<>>
         IN  [avail |-> avail,
              errors |-> IF overbooked # <<>>
                         THEN <<Err(MsgElderCapacity, overbooked)>>
                         ELSE <<>>,
              details |-> IF avail /\ elder_weekdays # <<>>
                          THEN (Elder :> Detail(Elder, elder_weekdays))
                          ELSE << >>,
              db |-> ReadAll(db, Elder, elder_weekdays)]

\* Process Elder Care: overall_availability, the errors appended,
\* temp_elder_details (the empty function stands for None) and the ledger
\* after the lookups.
ProcessElder(db, sel_elder, elder_range) ==
    IF ~sel_elder
    THEN [avail |-> TRUE, errors |-> <<>>, details |-> << >>, db |-> db]
    ELSE LET elder_weekdays == get_weekdays_in_range(elder_range[1], elder_range[2])
             overbooked == OverbookedDates(db, Elder, elder_weekdays)
             avail == elder_weekdays # <<>> /\ overbooked = <<>>
         IN  [avail |-> avail,
              errors |-> IF elder_weekdays = <<>>
                         THEN <<Err(MsgElderNoWeekdays, <<>>)>>
                         ELSE IF overbooked # <<>>
                              THEN <<Err(MsgElderCapacity, overbooked)>>
                              ELSE <<>>,
              details |-> IF avail /\ elder_weekdays # <<>>
                          THEN (Elder :> Detail(Elder, elder_weekdays))
                          ELSE << >>,
              db |-> ReadAll(db, Elder, elder_weekdays)]

\* any("Elder Care" in err and "no weekdays" in err for err in errors)
HasElderNoWeekdays(errors) ==
    \E i \in 1..Len(errors) : errors[i].msg = MsgElderNoWeekdays

\* Mutant: a Child Day Care range without weekdays does not fail the attempt.
ProcessChildWeekendPasses(db, sel_child, child_range, overall, errors) ==
    IF ~(sel_child /\ overall)
    THEN [avail |-> overall, errors |-> errors, details |-> << >>, db |-> db]
    ELSE LET child_weekdays == get_weekdays_in_range(child_range[1], child_range[2])
             overbooked == OverbookedDates(db, Child, child_weekdays)
             avail == overall /\ overbooked = <<>>
         IN  [avail |-> avail,
              errors |-> errors \o
                         (IF overbooked # <<>>
                          THEN <<Err(MsgChildCapacity, overbooked)>>
                          ELSE <<>>),
              details |-> IF avail /\ child_weekdays # <<>>
                          THEN (Child :> Detail(Child, child_weekdays))
                          ELSE << >>,
              db |-> ReadAll(db, Child, child_weekdays)]

\* Process Child Care, entered only while overall_availability is still true:
\* the new overall_availability, the whole error list, temp_child_details
\* and the ledger after the lookups.
ProcessChild(db, sel_child, child_range, overall, errors) ==
    IF ~(sel_child /\ overall)
    THEN [avail |-> overall, errors |-> errors, details |-> << >>, db |-> db]
    ELSE LET child_weekdays == get_weekdays_in_range(child_range[1], child_range[2])
             overbooked == OverbookedDates(db, Child, child_weekdays)
             avail == overall /\ child_weekdays # <<>> /\ overbooked = <<>>
         IN  [avail |-> avail,
              errors |-> errors \o
                         (IF child_weekdays = <<>>
                          THEN IF ~HasElderNoWeekdays(errors)
                               THEN <<Err(MsgChildNoWeekdays, <<>>)>>
                               ELSE <<>>
                          ELSE IF overbooked # <<>>
                               THEN <<Err(MsgChildCapacity, overbooked)>>
                               ELSE <<>>),
              details |-> IF avail /\ child_weekdays # <<>>
                          THEN (Child :> Detail(Child, child_weekdays))
                          ELSE << >>,
              db |-> ReadAll(db, Child, child_weekdays)]

DetailCost(details, s) == IF s \in DOMAIN details THEN details[s].cost ELSE 0

\* Mutant: the clearing of step 5 is done on the success branch too.
FinalizeClearing(overall, elder_details, child_details, errors) ==
    LET cost == DetailCost(elder_details, Elder) + DetailCost(child_details, Child)
    IN  [is_available |-> overall /\ cost > 0,
         booking_details |-> << >>,
         total_cost |-> 0,
         errors |-> IF overall /\ cost <= 0 /\ errors = <<>>
                    THEN <<Err(MsgZeroDays, <<>>)>>
                    ELSE errors]

\* 4. Finalize Booking State and the clearing of step 5: is_available,
\* booking_details, total_cost and the final error list.
Finalize(overall, elder_details, child_details, errors) ==
    LET details == elder_details @@ child_details
        cost == DetailCost(elder_details, Elder) + DetailCost(child_details, Child)
        available == overall /\ cost > 0
    IN  [is_available |-> available,
         booking_details |-> IF available THEN details ELSE << >>,
         total_cost |-> IF available THEN cost ELSE 0,
         errors |-> IF overall /\ cost <= 0 /\ errors = <<>>
                    THEN <<Err(MsgZeroDays, <<>>)>>
                    ELSE errors]

\* Whether the run goes on to the body of `if st.button(..., key="btn_pay")`:
\* the button is created on the success branch only, and reads True when its
\* click is part of this run.
PayHandlerRuns(available, pay_pressed) == available /\ pay_pressed

\* The confirm_button handler up to the payment button (lines 117-251).
CheckOutcome(db, sel_elder, elder_range, sel_child, child_range) ==
    LET verrs == ValidationErrors(sel_elder, elder_range, sel_child, child_range)
    IN  IF verrs # <<>>
        THEN [availability_checked |-> FALSE, is_available |-> FALSE,
              booking_details |-> << >>, total_cost |-> 0,
              errors |-> verrs, db |-> db]
        ELSE LET e == ProcessElder(db, sel_elder, elder_range)
                 c == ProcessChild(e.db, sel_child, child_range, e.avail, e.errors)
                 f == Finalize(c.avail, e.details, c.details, c.errors)
             IN  [availability_checked |-> TRUE, is_available |-> f.is_available,
                  booking_details |-> f.booking_details,
                  total_cost |-> f.total_cost,
                  errors |-> f.errors, db |-> c.db]

\* The payment handler's update of daily_bookings: every date of every
\* service of booking_details, in the dict's insertion order.
RECURSIVE CommitServices(_, _, _)
CommitServices(db, details, names) ==
    IF names = <<>> THEN db
    ELSE LET s == Head(names)
         IN  CommitServices(IF s \in DOMAIN details
                            THEN IncrementAll(db, s, details[s].dates)
                            ELSE db,
                            details, Tail(names))

\* Mutant: the dates of a booked service are counted for every service.
CommitEveryService(db, details) ==
    LET dates(s) == IF s \in DOMAIN details THEN details[s].dates ELSE <<>>
        all == dates(Elder) \o dates(Child)
    IN  IncrementAll(IncrementAll(db, Elder, all), Child, all)

CommitBookings(db, details) == CommitServices(db, details, SERVICE_NAMES)

\* --------------------------------------------------------------- state
VARIABLES
    daily_bookings,        \* st.session_state.daily_bookings
    booking_details,       \* st.session_state.booking_details
    total_cost,            \* st.session_state.total_cost
    availability_checked,  \* st.session_state.availability_checked
    is_available,          \* st.session_state.is_available
    payment_status,        \* st.session_state.payment_status ("None" or "Success")
    select_elder,          \* checkbox cb_elder
    elder_date_range,      \* date_input dr_elder: <<>>, <<start>> or <<start, end>>
    select_child,          \* checkbox cb_child
    child_date_range,      \* date_input dr_child
    confirm_button,        \* what st.button("Check Availability...") returned in the latest run
    btn_pay,               \* whether a click of btn_pay was delivered with the latest run
    btn_pay_rendered,      \* whether the latest finished run left the payment button on the page
    processing_errors,     \* the error list the latest run showed in availability_placeholder
    pc,                    \* "idle" between runs, "btn_pay" inside a run at line 252
    commits,               \* number of payment handler executions so far
    expansion              \* a call of get_weekdays_in_range: arguments and result

vars == <<daily_bookings, booking_details, total_cost, availability_checked,
          is_available, payment_status, select_elder, elder_date_range,
          select_child, child_date_range, confirm_button, btn_pay,
          btn_pay_rendered, processing_errors, pc, commits, expansion>>

session == <<daily_bookings, booking_details, total_cost, availability_checked,
             is_available, payment_status>>

\* Values a range date_input hands to the script: nothing picked, only a
\* start picked, both ends in order, or (tolerated by the core) an inverted
\* pair.
RangeInputs ==
    {<<>>, <<1>>, <<NumDays, 1>>} \cup {r \in Days \X Days : r[1] <= r[2]}

\* What the widgets of one service hand to the script: the checkbox, and the
\* range (no date_input is shown for an unchecked service).
ServiceInputs ==
    {<<FALSE, <<>>>>} \cup {<<TRUE, r>> : r \in RangeInputs}

\* A call of get_weekdays_in_range that has not returned: its arguments.
Call(start_arg, end_arg) ==
    [start_date |-> start_arg, end_date |-> end_arg,
     returned |-> FALSE, weekdays_list |-> <<>>]

\* Session state after the initialisation block (lines 39-53) and the
\* widgets' defaults (cb_elder unchecked, cb_child checked, no dates).
Init ==
    /\ expansion = Call(None, None)
    /\ daily_bookings = EmptyLedger
    /\ booking_details = << >>
    /\ total_cost = 0
    /\ availability_checked = FALSE
    /\ is_available = FALSE
    /\ payment_status = "None"
    /\ select_elder = FALSE
    /\ elder_date_range = <<>>
    /\ select_child = TRUE
    /\ child_date_range = <<>>
    /\ confirm_button = FALSE
    /\ btn_pay = FALSE
    /\ btn_pay_rendered = FALSE
    /\ processing_errors = <<>>
    /\ pc = "idle"
    /\ commits = 0

\* A run in which confirm_button reads False: `if confirm_button:` is
\* skipped, so neither handler runs, the session state is kept, and the
\* payment button (created only inside that block) is not on the page.
RunWithoutConfirm ==
    /\ confirm_button' = FALSE
    /\ btn_pay_rendered' = FALSE
    /\ processing_errors' = <<>>
    /\ pc' = "idle"
    /\ UNCHANGED <<session, commits, expansion>>

\* The user changes the Elder Day Care widgets (lines 66-75); the script
\* reruns with no button pressed.  An unchecked service has no range.
ElderInput(sel, range) ==
    /\ pc = "idle"
    /\ select_elder' = sel
    /\ elder_date_range' = range
    /\ btn_pay' = FALSE
    /\ RunWithoutConfirm
    /\ UNCHANGED <<select_child, child_date_range>>

\* The user changes the Child Day Care widgets (lines 78-87).
ChildInput(sel, range) ==
    /\ pc = "idle"
    /\ select_child' = sel
    /\ child_date_range' = range
    /\ btn_pay' = FALSE
    /\ RunWithoutConfirm
    /\ UNCHANGED <<select_elder, elder_date_range>>

\* The user clicks "Proceed to Payment" and the click is delivered as a run
\* of its own: confirm_button reads False in it.
PayClick ==
    /\ pc = "idle"
    /\ btn_pay_rendered
    /\ btn_pay' = TRUE
    /\ RunWithoutConfirm
    /\ UNCHANGED <<select_elder, elder_date_range, select_child, child_date_range>>

\* A run in which confirm_button reads True (lines 117-251).  pay_pressed:
\* a click of the payment button shown by the previous run reaches the
\* server together with the click of the check button.
ConfirmClick(pay_pressed) ==
    /\ pc = "idle"
    /\ pay_pressed => (btn_pay_rendered /\ commits < MaxCommits)
    /\ LET r == CheckOutcome(daily_bookings, select_elder, elder_date_range,
                             select_child, child_date_range)
       IN  /\ daily_bookings' = r.db
           /\ booking_details' = r.booking_details
           /\ total_cost' = r.total_cost
           /\ availability_checked' = r.availability_checked
           /\ is_available' = r.is_available
           /\ payment_status' = "None"
           /\ processing_errors' = r.errors
           /\ btn_pay_rendered' = r.is_available
           /\ pc' = (IF PayHandlerRuns(r.is_available, pay_pressed)
                     THEN "btn_pay" ELSE "idle")
    /\ confirm_button' = TRUE
    /\ btn_pay' = pay_pressed
    /\ UNCHANGED <<select_elder, elder_date_range, select_child,
                   child_date_range, commits, expansion>>

\* Mutant: the payment handler leaves the pending booking in the session.
PayHandlerKeepsPending ==
    /\ pc = "btn_pay"
    /\ payment_status' = "Success"
    /\ daily_bookings' = CommitBookings(daily_bookings, booking_details)
    /\ availability_checked' = FALSE
    /\ is_available' = FALSE
    /\ processing_errors' = <<>>
    /\ btn_pay_rendered' = FALSE
    /\ pc' = "idle"
    /\ commits' = commits + 1
    /\ UNCHANGED <<select_elder, elder_date_range, select_child,
                   child_date_range, confirm_button, btn_pay, expansion,
                   booking_details, total_cost>>

\* The body of `if st.button(..., key="btn_pay")` (lines 252-285), and the
\* rerun it asks for, in which no button reads pressed.
PayHandler ==
    /\ pc = "btn_pay"
    /\ payment_status' = "Success"
    /\ daily_bookings' = CommitBookings(daily_bookings, booking_details)
    /\ booking_details' = << >>
    /\ total_cost' = 0
    /\ availability_checked' = FALSE
    /\ is_available' = FALSE
    /\ processing_errors' = <<>>
    /\ btn_pay_rendered' = FALSE
    /\ pc' = "idle"
    /\ commits' = commits + 1
    /\ UNCHANGED <<select_elder, elder_date_range, select_child,
                   child_date_range, confirm_button, btn_pay, expansion>>

Next ==
    \/ \E w \in ServiceInputs : ElderInput(w[1], w[2])
    \/ \E w \in ServiceInputs : ChildInput(w[1], w[2])
    \/ PayClick
    \/ \E pay_pressed \in BOOLEAN : ConfirmClick(pay_pressed)
    \/ PayHandler

Spec == Init /\ [][Next]_vars

\* ------------------------------------------- a session with a full house
\* The ledger after n rounds of checking and paying for every weekday of the
\* window for both services, from the empty ledger: each round stores n for
\* every (weekday, service) pair, and passes its check while n is below
\* MAX_CAPACITY.
BookedTimes(n) ==
    [k \in {DateStr(d) : d \in {x \in Days : IsWeekday(x)}} |->
        [s \in Services |-> n]]

\* The session after such rounds, one place short of the capacity or at it.
InitCap ==
    /\ expansion = Call(None, None)
    /\ \E n \in {MAX_CAPACITY - 1, MAX_CAPACITY} : daily_bookings = BookedTimes(n)
    /\ booking_details = << >>
    /\ total_cost = 0
    /\ availability_checked = FALSE
    /\ is_available = FALSE
    /\ payment_status = "Success"
    /\ select_elder = TRUE
    /\ elder_date_range = <<1, NumDays>>
    /\ select_child = TRUE
    /\ child_date_range = <<1, NumDays>>
    /\ confirm_button = FALSE
    /\ btn_pay = FALSE
    /\ btn_pay_rendered = FALSE
    /\ processing_errors = <<>>
    /\ pc = "idle"
    /\ commits = 0

SpecCap == InitCap /\ [][Next]_vars

\* ------------------------------------------- get_weekdays_in_range alone
\* The arguments of a call: None or a day of the calendar window.
ExpandArgs == {None} \cup (1..ExpandDays)

\* The session as constructed, and a call of get_weekdays_in_range about
\* to be made with any two arguments.
InitExpand ==
    /\ \E s \in ExpandArgs, e \in ExpandArgs : expansion = Call(s, e)
    /\ daily_bookings = EmptyLedger
    /\ booking_details = << >>
    /\ total_cost = 0
    /\ availability_checked = FALSE
    /\ is_available = FALSE
    /\ payment_status = "None"
    /\ select_elder = FALSE
    /\ elder_date_range = <<>>
    /\ select_child = TRUE
    /\ child_date_range = <<>>
    /\ confirm_button = FALSE
    /\ btn_pay = FALSE
    /\ btn_pay_rendered = FALSE
    /\ processing_errors = <<>>
    /\ pc = "idle"
    /\ commits = 0

\* The call returns (lines 16-32).
Expand ==
    /\ ~expansion.returned
    /\ expansion' =
          [expansion EXCEPT
              !.returned = TRUE,
              !.weekdays_list =
                  get_weekdays_in_range(expansion.start_date, expansion.end_date)]
    /\ UNCHANGED <<session, commits, select_elder, elder_date_range,
                   select_child, child_date_range, confirm_button, btn_pay,
                   btn_pay_rendered, processing_errors, pc>>

NextExpand == Expand

SpecExpand == InitExpand /\ [][NextExpand]_vars

\* ------------------------------------------------------------ properties
\* The count the ledger holds for a day and a service.
Booked(d, s) == Count(daily_bookings, DateStr(d), s)

\* The state right after the check part of a run of the confirm_button
\* handler: the widgets hold what it read, no payment was applied since.
AfterCheck == confirm_button /\ payment_status = "None"

\* The weekdays of a service's range, as the handler expands it.
RangeWeekdays(range) ==
    IF Len(range) = 2 THEN get_weekdays_in_range(range[1], range[2]) ELSE <<>>

SeqToSet(q) == {q[i] : i \in 1..Len(q)}

\* C1: every count stored in daily_bookings, for every date and service, is
\* between 0 and MAX_CAPACITY (25) inclusive, in every state reachable by
\* check and payment triggers.
C1_CapacityInvariant ==
    \A k \in DOMAIN daily_bookings : \A s \in DOMAIN daily_bookings[k] :
        /\ daily_bookings[k][s] >= 0
        /\ daily_bookings[k][s] <= 25

\* A payment filled the last place of a day, and the next check of that day
\* was refused for capacity.
C1_Witness ==
    /\ commits > 0
    /\ AfterCheck /\ ~is_available
    /\ \E i \in 1..Len(processing_errors) : processing_errors[i].dates # <<>>
    /\ \E d \in Days, s \in Services : Booked(d, s) = 25

\* C2: a step of the payment handler raises by exactly 1 the count of every
\* date in the date list of every service of the pending booking, and leaves
\* the count of every other (date, service) pair as it was.
C2_CommitEffect ==
    [][pc = "btn_pay" =>
        \A d \in Days, s \in Services :
            Count(daily_bookings', DateStr(d), s) =
                Booked(d, s)
                + (IF s \in DOMAIN booking_details
                      /\ d \in SeqToSet(booking_details[s].dates)
                   THEN 1 ELSE 0)]_vars

\* A payment for both services over two weekdays has been applied to the
\* empty ledger.
C2_Witness ==
    /\ payment_status = "Success"
    /\ Cardinality({d \in Days : Booked(d, Elder) = 1 /\ Booked(d, Child) = 1}) >= 2

\* C3: a click of the payment button delivered as a run of its own, right
\* after a run whose check succeeded, applies the pending booking to the
\* capacity ledger.
C3_PayRunCommits ==
    [][(pc = "idle" /\ btn_pay_rendered /\ ~confirm_button' /\ btn_pay') =>
        daily_bookings' = CommitBookings(daily_bookings, booking_details)]_vars

\* C4: a ledger count changes only in a run whose check succeeded, only
\* upwards, and only for (date, service) pairs of the booking details that
\* check produced.
C4_IncrementOnlyAfterCheck ==
    [][(/\ daily_bookings' # daily_bookings
        /\ \E d \in Days, s \in Services :
               Count(daily_bookings', DateStr(d), s) # Booked(d, s)) =>
        /\ confirm_button /\ is_available /\ pc = "btn_pay"
        /\ booking_details =
               CheckOutcome(daily_bookings, select_elder, elder_date_range,
                            select_child, child_date_range).booking_details
        /\ \A d \in Days, s \in Services :
               Count(daily_bookings', DateStr(d), s) # Booked(d, s) =>
                   /\ Count(daily_bookings', DateStr(d), s) > Booked(d, s)
                   /\ s \in DOMAIN booking_details
                   /\ d \in SeqToSet(booking_details[s].dates)]_vars

\* A payment for Elder Day Care alone has been applied: no Child Day Care
\* count moved.
C4_Witness ==
    /\ payment_status = "Success"
    /\ \E d \in Days : Booked(d, Elder) = 1
    /\ \A d \in Days : Booked(d, Child) = 0

\* The days of a service's validated range that are weekdays at capacity.
FullDays(s, range) ==
    {d \in SeqToSet(RangeWeekdays(range)) : Booked(d, s) >= MAX_CAPACITY}

HasError(msg) ==
    \E i \in 1..Len(processing_errors) : processing_errors[i].msg = msg

\* C5: when both services are selected with validated ranges, Child Day Care
\* is checked whatever Elder Day Care's result: its no-weekdays error or its
\* capacity error is in the reported list whenever its range has no weekday
\* or a weekday at capacity.
C5_ChildErrorsReported ==
    (AfterCheck /\ select_elder /\ select_child /\ availability_checked) =>
        /\ RangeWeekdays(child_date_range) = <<>> => HasError(MsgChildNoWeekdays)
        /\ FullDays(Child, child_date_range) # {} => HasError(MsgChildCapacity)

\* C6: a step of the check leaves the count of every (date, service) pair
\* as it was, whatever the check's result.
C6_CheckKeepsCounts ==
    [][(pc = "idle" /\ confirm_button') =>
        \A d \in Days, s \in Services :
            Count(daily_bookings', DateStr(d), s) = Booked(d, s)]_vars

\* A successful check has looked up both services on every weekday and all
\* counts are still 0.
C6_Witness ==
    /\ AfterCheck /\ is_available
    /\ DOMAIN booking_details = Services
    /\ \A d \in Days, s \in Services : Booked(d, s) = 0
    /\ \E d \in Days : HasKey(daily_bookings, DateStr(d), Elder)

\* The range of the one selected service, when exactly one is selected.
OnlyService == IF select_elder THEN Elder ELSE Child
OnlyRange == IF select_elder THEN elder_date_range ELSE child_date_range

\* The labels a capacity error of a service names.
NamedDates(s) ==
    UNION {SeqToSet(processing_errors[i].dates) :
             i \in {j \in 1..Len(processing_errors) :
                      processing_errors[j].msg =
                        (IF s = Elder THEN MsgElderCapacity ELSE MsgChildCapacity)}}

\* C7: with a single service selected and a validated range, the check
\* succeeds when a weekday of the range holds 24 bookings and none holds 25
\* or more, and it fails with a capacity error naming the date when a
\* weekday of the range holds 25.
C7_CapacityBoundary ==
    (AfterCheck /\ select_elder # select_child /\ availability_checked) =>
        LET days == SeqToSet(RangeWeekdays(OnlyRange))
        IN  /\ ((\E d \in days : Booked(d, OnlyService) = 24)
                 /\ (\A d \in days : Booked(d, OnlyService) < 25))
                => (is_available /\ processing_errors = <<>>)
            /\ \A d \in days : Booked(d, OnlyService) = 25 =>
                   (~is_available /\ DateLabel(d) \in NamedDates(OnlyService))

\* A single-service check over two weekdays holding 24 and 25 bookings was
\* refused, naming the full day.
C7_Witness ==
    /\ AfterCheck /\ select_elder # select_child /\ availability_checked
    /\ \E d \in SeqToSet(RangeWeekdays(OnlyRange)) : Booked(d, OnlyService) = 24
    /\ \E d \in SeqToSet(RangeWeekdays(OnlyRange)) :
           Booked(d, OnlyService) = 25 /\ DateLabel(d) \in NamedDates(OnlyService)
    /\ ~is_available

\* Whether the capacity loop of a service ran in the latest check.
ElderChecked == select_elder /\ RangeWeekdays(elder_date_range) # <<>>
ChildChecked ==
    /\ select_child /\ RangeWeekdays(child_date_range) # <<>>
    /\ ~select_elder \/ (ElderChecked /\ FullDays(Elder, elder_date_range) = {})

\* C8: whenever the capacity check of a service is performed and finds a
\* full weekday, the capacity error of that service lists exactly the
\* weekdays of its range holding at least 25 bookings, each once, in
\* chronological order.
C8_AllFullDatesListed ==
    (AfterCheck /\ availability_checked) =>
        /\ (ElderChecked /\ FullDays(Elder, elder_date_range) # {}) =>
              \E i \in 1..Len(processing_errors) :
                  /\ processing_errors[i].msg = MsgElderCapacity
                  /\ processing_errors[i].dates =
                        [j \in 1..Len(SelectSeq(RangeWeekdays(elder_date_range),
                                LAMBDA d : Booked(d, Elder) >= 25)) |->
                            DateLabel(SelectSeq(RangeWeekdays(elder_date_range),
                                LAMBDA d : Booked(d, Elder) >= 25)[j])]
        /\ (ChildChecked /\ FullDays(Child, child_date_range) # {}) =>
              \E i \in 1..Len(processing_errors) :
                  /\ processing_errors[i].msg = MsgChildCapacity
                  /\ processing_errors[i].dates =
                        [j \in 1..Len(SelectSeq(RangeWeekdays(child_date_range),
                                LAMBDA d : Booked(d, Child) >= 25)) |->
                            DateLabel(SelectSeq(RangeWeekdays(child_date_range),
                                LAMBDA d : Booked(d, Child) >= 25)[j])]
        /\ \A s \in Services : NamedDates(s) =
              {DateLabel(d) : d \in FullDays(s,
                   IF s = Elder THEN elder_date_range ELSE child_date_range)}
              \/ NamedDates(s) = {}

\* A capacity error lists two full weekdays of one range.
C8_Witness ==
    /\ AfterCheck /\ availability_checked
    /\ \E s \in Services : Cardinality(NamedDates(s)) >= 2

\* C9: after a successful check the pending booking holds exactly the
\* selected services, each with num_days the number of weekdays of its range
\* and cost num_days times 800 (Elder) or 600 (Child), and total_cost is the
\* sum of the costs.
C9_Pricing ==
    (AfterCheck /\ is_available) =>
        /\ DOMAIN booking_details =
              {s \in Services : IF s = Elder THEN select_elder ELSE select_child}
        /\ \A s \in DOMAIN booking_details :
              /\ booking_details[s].dates =
                    RangeWeekdays(IF s = Elder THEN elder_date_range
                                  ELSE child_date_range)
              /\ booking_details[s].num_days = Len(booking_details[s].dates)
              /\ booking_details[s].cost =
                    booking_details[s].num_days * (IF s = Elder THEN 800 ELSE 600)
        /\ total_cost =
              (IF select_elder THEN booking_details[Elder].cost ELSE 0)
              + (IF select_child THEN booking_details[Child].cost ELSE 0)

\* Two weekdays of each service are priced: 2 x 800 + 2 x 600.
C9_Witness ==
    /\ AfterCheck /\ is_available
    /\ select_elder /\ select_child
    /\ booking_details[Elder].num_days = 2
    /\ booking_details[Child].num_days = 2
    /\ total_cost = 2800

\* C10: in every state where is_available is true, total_cost is positive
\* and the pending booking is not empty, every service in it having at
\* least one weekday.
C10_AvailablePositiveCost ==
    is_available =>
        /\ total_cost > 0
        /\ DOMAIN booking_details # {}
        /\ \A s \in DOMAIN booking_details :
              /\ booking_details[s].num_days >= 1
              /\ Len(booking_details[s].dates) >= 1

\* The pending booking of an earlier successful check is still held after
\* the widgets changed.
C10_Witness ==
    /\ is_available /\ ~confirm_button
    /\ total_cost > 0

\* No pending booking is held in the session.
NoPending == booking_details = << >> /\ total_cost = 0 /\ ~is_available

\* C11: a pending booking is held only after a successful check with no
\* payment applied since; after a check that failed (validation, no
\* weekdays or capacity) and after a payment, booking_details is empty,
\* total_cost is 0 and is_available is false.
C11_PendingLifecycle ==
    /\ ~NoPending =>
          (is_available /\ availability_checked /\ payment_status = "None"
             /\ booking_details # << >> /\ total_cost > 0)
    /\ (AfterCheck /\ processing_errors # <<>>) => NoPending
    /\ payment_status = "Success" => NoPending

\* A check that failed validation follows a successful check of an earlier
\* attempt: with no payment so far and every count at 0, a stored Child Day
\* Care key was written by a Child capacity loop that found no full day,
\* that is by a check that succeeded; nothing of it is pending.
C11_Witness ==
    /\ AfterCheck /\ ~availability_checked /\ processing_errors # <<>>
    /\ commits = 0
    /\ \E d \in Days : HasKey(daily_bookings, DateStr(d), Child)
    /\ \A d \in Days, s \in Services : Booked(d, s) = 0
    /\ NoPending

\* A validation error is in the reported list.
HasValidationError ==
    \/ HasError(MsgNoService)
    \/ HasError(MsgElderMissing) \/ HasError(MsgElderInverted)
    \/ HasError(MsgChildMissing) \/ HasError(MsgChildInverted)

\* C12: a step of the check reports the no-service error when no service is
\* selected, the missing-date error of each selected service whose range
\* lacks an end, and the inverted-range error of each selected service
\* whose start is after its end, all in one list; when any of them is
\* reported no pending booking is created and the ledger is not looked up.
C12_InputValidation ==
    [][(pc = "idle" /\ confirm_button') =>
        /\ (~select_elder /\ ~select_child) => HasError(MsgNoService)'
        /\ (select_elder /\ Len(elder_date_range) < 2) => HasError(MsgElderMissing)'
        /\ (select_child /\ Len(child_date_range) < 2) => HasError(MsgChildMissing)'
        /\ (select_elder /\ Len(elder_date_range) = 2
               /\ elder_date_range[1] > elder_date_range[2])
              => HasError(MsgElderInverted)'
        /\ (select_child /\ Len(child_date_range) = 2
               /\ child_date_range[1] > child_date_range[2])
              => HasError(MsgChildInverted)'
        /\ HasValidationError' =>
              /\ NoPending'
              /\ ~availability_checked'
              /\ pc' = "idle"
              /\ daily_bookings' = daily_bookings
              /\ ~HasError(MsgElderCapacity)' /\ ~HasError(MsgChildCapacity)'
              /\ ~HasError(MsgElderNoWeekdays)' /\ ~HasError(MsgChildNoWeekdays)']_vars

\* One check reported the Elder missing-date error and the Child
\* inverted-range error together.
C12_Witness ==
    /\ AfterCheck
    /\ HasError(MsgElderMissing) /\ HasError(MsgChildInverted)
    /\ NoPending

\* C13: get_weekdays_in_range(start, end) returns exactly the dates from
\* start to end inclusive whose day of week is Monday to Friday, in strictly
\* increasing order; it returns the empty list when start is after end,
\* when an endpoint is missing, and when no date of the range is a weekday.
C13_WeekdayExpansion ==
    expansion.returned =>
        LET s == expansion.start_date
            e == expansion.end_date
            out == expansion.weekdays_list
            wanted == IF s = 0 \/ e = 0 THEN {}
                      ELSE {d \in s..e : (FirstWeekday + d - 1) % 7 \in 0..4}
        IN  /\ {out[i] : i \in 1..Len(out)} = wanted
            /\ \A i \in 1..Len(out), j \in 1..Len(out) : i < j => out[i] < out[j]
            /\ (s = 0 \/ e = 0 \/ s > e) => out = <<>>
            /\ (s # 0 /\ e # 0 /\ s <= e /\ (FirstWeekday + s - 1) % 7 \in 0..4)
                  => out[1] = s
            /\ (s # 0 /\ e # 0 /\ s <= e /\ (FirstWeekday + e - 1) % 7 \in 0..4)
                  => out[Len(out)] = e

\* A call over a range that starts and ends on weekdays and spans a whole
\* weekend has returned both endpoints and skipped two days.
C13_Witness ==
    /\ expansion.returned
    /\ Len(expansion.weekdays_list) >= 2
    /\ expansion.weekdays_list[1] = expansion.start_date
    /\ expansion.weekdays_list[Len(expansion.weekdays_list)] = expansion.end_date
    /\ expansion.end_date - expansion.start_date + 1
          = Len(expansion.weekdays_list) + 2

\* C14: a check that directly follows a check of the same selections and
\* ranges, with no payment in between, has the same outcome: is_available,
\* the error list, the booking details and total_cost.
C14_CheckIdempotent ==
    [][(pc = "idle" /\ AfterCheck /\ confirm_button') =>
        /\ is_available' = is_available
        /\ availability_checked' = availability_checked
        /\ processing_errors' = processing_errors
        /\ booking_details' = booking_details
        /\ total_cost' = total_cost]_vars

\* A second check followed a successful one on a day holding 24 bookings
\* (its run goes on to the payment button pressed on the first one's page).
C14_Witness ==
    /\ AfterCheck /\ pc = "btn_pay" /\ btn_pay
    /\ \E s \in DOMAIN booking_details :
           \E d \in SeqToSet(booking_details[s].dates) : Booked(d, s) = 24

\* A selected service whose validated range holds no weekday.
WeekendOnly(sel, range) ==
    sel /\ Len(range) = 2 /\ range[1] <= range[2] /\ RangeWeekdays(range) = <<>>

\* C15: a check in which a selected service has a validated range without
\* any Monday-Friday date ends with is_available false and no pending
\* booking, whatever the other service; when that service is the only one
\* selected, its no-weekdays error is reported.
C15_WeekendNeverBookable ==
    (AfterCheck /\ availability_checked
       /\ (WeekendOnly(select_elder, elder_date_range)
           \/ WeekendOnly(select_child, child_date_range))) =>
        /\ NoPending
        /\ pc = "idle"
        /\ (WeekendOnly(select_elder, elder_date_range) /\ ~select_child)
              => HasError(MsgElderNoWeekdays)
        /\ (WeekendOnly(select_child, child_date_range) /\ ~select_elder)
              => HasError(MsgChildNoWeekdays)

\* Elder Day Care is available on two weekdays, Child Day Care is asked for
\* a weekend day only, and the attempt failed.
C15_Witness ==
    /\ AfterCheck /\ availability_checked
    /\ select_elder /\ Len(RangeWeekdays(elder_date_range)) = 2
    /\ \A d \in Days : Booked(d, Elder) = 0
    /\ WeekendOnly(select_child, child_date_range)
    /\ NoPending

\* The (date, service) entries stored in a ledger: what the snapshot lists.
StoredEntries(db) ==
    {<<k, s>> \in (DOMAIN db) \X Services : HasKey(db, k, s)}

\* C16: a check trigger leaves the set of dates stored in daily_bookings,
\* and the services stored under each date, as it found them, and as long
\* as nothing has been committed the ledger holds no date at all.
C16_CheckInsertsNothing ==
    [][(pc = "idle" /\ confirm_button') =>
        /\ DOMAIN daily_bookings' = DOMAIN daily_bookings
        /\ StoredEntries(daily_bookings') = StoredEntries(daily_bookings)
        /\ (commits' = 0 => DOMAIN daily_bookings' = {})]_vars

\* C17: no check reports the zero-valid-booking-days error, and every check
\* that passed validation and the per-service checks without an error ends
\* available with a positive total_cost.
C17_ZeroDaysRuleUnreachable ==
    /\ ~HasError(MsgZeroDays)
    /\ (AfterCheck /\ availability_checked /\ processing_errors = <<>>)
          => (is_available /\ total_cost > 0 /\ booking_details # << >>)
    /\ (AfterCheck /\ is_available) => total_cost > 0

\* A check of a validated range without weekdays was stopped by the
\* per-service test before the zero-cost guard.
C17_Witness ==
    /\ AfterCheck /\ availability_checked
    /\ WeekendOnly(select_elder, elder_date_range)
    /\ ~select_child
    /\ HasError(MsgElderNoWeekdays)
    /\ total_cost = 0
====
